---- MODULE Spec2Model ----
(***************************************************************************)
(* A model of src/main/diff_parser.py: group_entries, summarize_diff and   *)
(* extract_code_snippet.                                                   *)
(*                                                                         *)
(* Text is modelled as sequences of tokens.  A line of a diff is a         *)
(* sequence whose tokens are single characters, except that the fixed      *)
(* literals a regular expression of the source matches ("diff --git a/",   *)
(* " b/", "@@ -", " +", " @@"), a whole path and the remainder of the      *)
(* "\ No newline at end of file" marker are one token each.  A line        *)
(* reference is a sequence of single characters.  raw.splitlines() is the  *)
(* sequence of lines.                                                      *)
(***************************************************************************)
EXTENDS Integers, Sequences, FiniteSets, TLC

\* ------------------------------------------------------------------ bounds
\* most lines a generated diff has after its first file header
MaxBody == 3
\* longest entry sequence handed directly to group_entries
MaxEntries == 3
\* largest line number of a generated entry or line reference
MaxLineNo == 3

\* ------------------------------------------------------- text and parsing
DigitValue ==
  [c \in {"0", "1", "2", "3", "4", "5", "6", "7", "8", "9"} |->
     CASE c = "0" -> 0 [] c = "1" -> 1 [] c = "2" -> 2 [] c = "3" -> 3
       [] c = "4" -> 4 [] c = "5" -> 5 [] c = "6" -> 6 [] c = "7" -> 7
       [] c = "8" -> 8 [] c = "9" -> 9]

DigitChar == [n \in 0..9 |-> CHOOSE c \in DOMAIN DigitValue : DigitValue[c] = n]

\* int(s) succeeds: s is a non-empty run of decimal digits
IsInt(s) == Len(s) > 0 /\ \A n \in 1..Len(s) : s[n] \in DOMAIN DigitValue

RECURSIVE IntValue(_)
\* int(s) for a string of decimal digits
IntValue(s) ==
  IF Len(s) = 0 THEN 0
  ELSE 10 * IntValue(SubSeq(s, 1, Len(s) - 1)) + DigitValue[s[Len(s)]]

RECURSIVE Split(_, _)
\* s.split(sep) for a one-character separator
Split(s, sep) ==
  IF \A n \in 1..Len(s) : s[n] # sep THEN <<s>>
  ELSE LET n == CHOOSE m \in 1..Len(s) :
                  s[m] = sep /\ \A q \in 1..(m - 1) : s[q] # sep
       IN <<SubSeq(s, 1, n - 1)>> \o Split(SubSeq(s, n + 1, Len(s)), sep)

RECURSIVE LStrip(_)
LStrip(s) == IF Len(s) > 0 /\ s[1] = " " THEN LStrip(Tail(s)) ELSE s

RECURSIVE RStrip(_)
RStrip(s) ==
  IF Len(s) > 0 /\ s[Len(s)] = " " THEN RStrip(SubSeq(s, 1, Len(s) - 1)) ELSE s

\* s.strip()
Strip(s) == RStrip(LStrip(s))

EmptyPlaceholder == <<"(", "e", "m", "p", "t", "y", ")">>

\* line[1:].strip() or "(empty)"
EntryContent(line) ==
  IF Strip(Tail(line)) = <<>> THEN EmptyPlaceholder ELSE Strip(Tail(line))

DevNull == "/dev/null"

\* the line  diff --git a/<old> b/<new>
HeaderLine(old, new) == <<"diff --git a/", old, " b/", new>>

\* the line  @@ -<o> +<n> @@
HunkLine(o, n) == <<"@@ -", DigitChar[o], " +", DigitChar[n], " @@">>

NoNewlineMarker == <<"\\", " No newline at end of file">>

\* diff_header.match(line)
IsDiffHeader(line) ==
  Len(line) = 4 /\ line[1] = "diff --git a/" /\ line[3] = " b/"

\* hunk_header.match(line)
IsHunkHeader(line) ==
  /\ Len(line) = 5
  /\ line[1] = "@@ -"
  /\ line[3] = " +"
  /\ line[5] = " @@"
  /\ IsInt(<<line[2]>>)
  /\ IsInt(<<line[4]>>)

\* the resolution without the /dev/null fallback
HeaderPathNewOnly(line) == line[4]

\* the path a file header resolves to: group(2), or group(1) for a deletion
HeaderPath(line) == IF line[4] = DevNull THEN line[2] ELSE line[4]

HunkOldStart(line) == IntValue(<<line[2]>>)

HunkNewStart(line) == IntValue(<<line[4]>>)

\* line[0] if line else " "
Prefix(line) == IF Len(line) > 0 THEN line[1] ELSE " "

\* ------------------------------------------------------------ rendering
COLOR_TITLE == "\\033[96m"
COLOR_ADD == "\\033[32m"
COLOR_REMOVE == "\\033[31m"
COLOR_NOTICE == "\\033[93m"
COLOR_RESET == "\\033[0m"

Colorize(text, color) == <<color, text, COLOR_RESET>>

\* "line N" or "lines N-M"
LineLabel(grp) ==
  IF grp.start_line = grp.end_line
    THEN <<"line ", grp.start_line>>
    ELSE <<"lines ", grp.start_line, "-", grp.end_line>>

TitleLine(path) == [kind |-> "title", text |-> Colorize(path, COLOR_TITLE)]

GroupLine(grp) ==
  [kind |-> "group",
   text |-> IF grp.change_type = "remove"
              THEN <<"  - ", Colorize("Removed", COLOR_REMOVE), " ",
                     Colorize(LineLabel(grp), COLOR_NOTICE), ":">>
              ELSE <<"  - ", Colorize("Added", COLOR_ADD), " ",
                     Colorize(LineLabel(grp), COLOR_NOTICE), ":">>]

ContentLine(content) == [kind |-> "content", text |-> <<"      ", content>>]

\* the lines one group contributes to the summary
GroupLines(grp) ==
  <<GroupLine(grp)>> \o [n \in 1..Len(grp.content) |-> ContentLine(grp.content[n])]

RECURSIVE RenderGroups(_)
\* the lines of all groups of one file, in group order
RenderGroups(gs) ==
  IF gs = <<>> THEN <<>> ELSE GroupLines(Head(gs)) \o RenderGroups(Tail(gs))

\* ---------------------------------------------------------------- state
VARIABLES
  call,              \* the function under execution at top level
  pc,                \* the control point
  raw,               \* raw.splitlines(): the diff, a sequence of lines
  entries,           \* group_entries: its argument
  groups,            \* group_entries: the closed groups (its return value)
  current,           \* group_entries: the open group
  gi,                \* group_entries: index of the next entry of the loop
  summaries,         \* summarize_diff: path -> entries
  order,             \* summarize_diff: paths in discovery order
  current_path,      \* summarize_diff: the current section's path
  old_line,          \* summarize_diff: old-file line counter
  new_line,          \* summarize_diff: new-file line counter
  results,           \* summarize_diff: the flat entry list
  lines,             \* summarize_diff: the summary's lines
  si,                \* summarize_diff: index of the next line of raw
  oi,                \* summarize_diff: index of the next path of order
  file_path,         \* extract_code_snippet: argument
  line_ref,          \* extract_code_snippet: argument, str(line_ref)
  context_lines,     \* extract_code_snippet: argument
  start_line,        \* extract_code_snippet: parsed range start
  end_line,          \* extract_code_snippet: parsed range end
  in_target_file,    \* extract_code_snippet: inside the target's section
  current_new_line,  \* extract_code_snippet: new-file line counter
  collected_lines,   \* extract_code_snippet: the recorded lines
  snippet,           \* extract_code_snippet: the return value
  xi                 \* extract_code_snippet: index of the next line of raw

groupVars == <<entries, groups, current, gi>>

sumVars ==
  <<summaries, order, current_path, old_line, new_line, results, lines, si, oi>>

extVars ==
  <<file_path, line_ref, context_lines, start_line, end_line, in_target_file,
    current_new_line, collected_lines, snippet, xi>>

vars == <<call, pc, raw, groupVars, sumVars, extVars>>

NoPath == "None"

NoGroup == [start_line |-> 0, end_line |-> 0, change_type |-> "", content |-> <<>>]

\* the absent value, and a returned snippet ("\n".join of the recorded texts)
None == [some |-> FALSE, text |-> <<>>]

Some(texts) == [some |-> TRUE, text |-> texts]

\* ----------------------------------------------------------- group_entries
ChangeEntry(path, line, change_type, content) ==
  [path |-> path, line |-> line, change_type |-> change_type, content |-> content]

\* GroupedChange(start_line=e.line, end_line=e.line, ...)
NewGroup(e) ==
  [start_line |-> e.line, end_line |-> e.line,
   change_type |-> e.change_type, content |-> <<e.content>>]

\* the test without its change_type condition
SameRunLineOnly(g, e) == e.line = g.end_line + 1

\* the test without its line condition
SameRunTypeOnly(g, e) == e.change_type = g.change_type

\* the test that folds an entry into the open group
SameRun(g, e) == e.change_type = g.change_type /\ e.line = g.end_line + 1

\* the extension without current.content.append(entry.content)
ExtendGroupNoAppend(g, e) == [g EXCEPT !.end_line = e.line]

\* current.end_line = entry.line; current.content.append(entry.content)
ExtendGroup(g, e) ==
  [g EXCEPT !.end_line = e.line, !.content = Append(@, e.content)]

\* where group_entries returns to
AfterGroups == IF call = "summarize_diff" THEN "summarize_emit" ELSE "done"

\* if not entries: return []; else open the first group
GroupEnter ==
  /\ pc = "group_entries"
  /\ IF entries = <<>>
       THEN /\ groups' = <<>>
            /\ current' = NoGroup
            /\ gi' = 1
            /\ pc' = AfterGroups
       ELSE /\ groups' = <<>>
            /\ current' = NewGroup(entries[1])
            /\ gi' = 2
            /\ pc' = "group_loop"
  /\ UNCHANGED <<call, raw, entries, sumVars, extVars>>

\* one iteration of  for entry in entries[1:]  that extends the open group
GroupExtend ==
  /\ pc = "group_loop"
  /\ gi <= Len(entries)
  /\ SameRun(current, entries[gi])
  /\ current' = ExtendGroup(current, entries[gi])
  /\ gi' = gi + 1
  /\ UNCHANGED <<call, pc, raw, entries, groups, sumVars, extVars>>

\* one iteration that closes the open group and opens the next
GroupClose ==
  /\ pc = "group_loop"
  /\ gi <= Len(entries)
  /\ ~SameRun(current, entries[gi])
  /\ groups' = Append(groups, current)
  /\ current' = NewGroup(entries[gi])
  /\ gi' = gi + 1
  /\ UNCHANGED <<call, pc, raw, entries, sumVars, extVars>>

\* groups.append(current); return groups
GroupReturn ==
  /\ pc = "group_loop"
  /\ gi > Len(entries)
  /\ groups' = Append(groups, current)
  /\ pc' = AfterGroups
  /\ UNCHANGED <<call, raw, entries, current, gi, sumVars, extVars>>

\* ---------------------------------------------------------- summarize_diff
\* if path not in summaries: summaries[path] = []
WithPath(sums, path) ==
  [q \in DOMAIN sums \cup {path} |-> IF q \in DOMAIN sums THEN sums[q] ELSE <<>>]

\* if path not in summaries: order.append(path)
Discover(ord, sums, path) == IF path \in DOMAIN sums THEN ord ELSE Append(ord, path)

\* the line under the scan of summarize_diff
SumLine == raw[si]

Scanning == pc = "summarize_scan" /\ si <= Len(raw)

\* the lines that reach the prefix dispatch of summarize_diff
SumBody ==
  /\ Scanning
  /\ ~IsDiffHeader(SumLine)
  /\ current_path # NoPath
  /\ ~IsHunkHeader(SumLine)
  /\ SumLine # <<>>
  /\ SumLine # NoNewlineMarker

\* the test with every unknown prefix taken for a context line
IsContextOrOther(line) == Prefix(line) \notin {"-", "+"}

\* if prefix == " "
IsContext(line) == Prefix(line) = " "

\* the file header that leaves the counters of the section before running
SumDiffHeaderNoReset ==
  /\ Scanning
  /\ IsDiffHeader(SumLine)
  /\ summaries' = WithPath(summaries, HeaderPath(SumLine))
  /\ order' = Discover(order, summaries, HeaderPath(SumLine))
  /\ current_path' = HeaderPath(SumLine)
  /\ si' = si + 1
  /\ UNCHANGED <<call, pc, raw, groupVars, old_line, new_line, results, lines,
                 oi, extVars>>

\* a file header: switch section, reset both counters
SumDiffHeader ==
  /\ Scanning
  /\ IsDiffHeader(SumLine)
  /\ summaries' = WithPath(summaries, HeaderPath(SumLine))
  /\ order' = Discover(order, summaries, HeaderPath(SumLine))
  /\ current_path' = HeaderPath(SumLine)
  /\ old_line' = 0
  /\ new_line' = 0
  /\ si' = si + 1
  /\ UNCHANGED <<call, pc, raw, groupVars, results, lines, oi, extVars>>

\* if current_path is None: continue
SumNoFile ==
  /\ Scanning
  /\ ~IsDiffHeader(SumLine)
  /\ current_path = NoPath
  /\ si' = si + 1
  /\ UNCHANGED <<call, pc, raw, groupVars, summaries, order, current_path,
                 old_line, new_line, results, lines, oi, extVars>>

\* a hunk header: set both counters
SumHunkHeader ==
  /\ Scanning
  /\ ~IsDiffHeader(SumLine)
  /\ current_path # NoPath
  /\ IsHunkHeader(SumLine)
  /\ old_line' = HunkOldStart(SumLine)
  /\ new_line' = HunkNewStart(SumLine)
  /\ si' = si + 1
  /\ UNCHANGED <<call, pc, raw, groupVars, summaries, order, current_path,
                 results, lines, oi, extVars>>

\* if not line or line == "\\ No newline at end of file": continue
SumSkip ==
  /\ Scanning
  /\ ~IsDiffHeader(SumLine)
  /\ current_path # NoPath
  /\ ~IsHunkHeader(SumLine)
  /\ (SumLine = <<>> \/ SumLine = NoNewlineMarker)
  /\ si' = si + 1
  /\ UNCHANGED <<call, pc, raw, groupVars, summaries, order, current_path,
                 old_line, new_line, results, lines, oi, extVars>>

\* a context line: advance the counters that are running
SumContext ==
  /\ SumBody
  /\ IsContext(SumLine)
  /\ old_line' = IF old_line > 0 THEN old_line + 1 ELSE old_line
  /\ new_line' = IF new_line > 0 THEN new_line + 1 ELSE new_line
  /\ si' = si + 1
  /\ UNCHANGED <<call, pc, raw, groupVars, summaries, order, current_path,
                 results, lines, oi, extVars>>

\* a removal: dropped while old_line is 0, else an entry at old_line
SumRemove ==
  /\ SumBody
  /\ ~IsContext(SumLine)
  /\ Prefix(SumLine) = "-"
  /\ IF old_line = 0
       THEN UNCHANGED <<summaries, results, old_line>>
       ELSE LET entry == ChangeEntry(current_path, old_line, "remove",
                                     EntryContent(SumLine))
            IN /\ summaries' = [summaries EXCEPT ![current_path] = Append(@, entry)]
               /\ results' = Append(results, entry)
               /\ old_line' = old_line + 1
  /\ si' = si + 1
  /\ UNCHANGED <<call, pc, raw, groupVars, order, current_path, new_line,
                 lines, oi, extVars>>

\* an addition: dropped while new_line is 0, else an entry at new_line
SumAdd ==
  /\ SumBody
  /\ ~IsContext(SumLine)
  /\ Prefix(SumLine) # "-"
  /\ Prefix(SumLine) = "+"
  /\ IF new_line = 0
       THEN UNCHANGED <<summaries, results, new_line>>
       ELSE LET entry == ChangeEntry(current_path, new_line, "add",
                                     EntryContent(SumLine))
            IN /\ summaries' = [summaries EXCEPT ![current_path] = Append(@, entry)]
               /\ results' = Append(results, entry)
               /\ new_line' = new_line + 1
  /\ si' = si + 1
  /\ UNCHANGED <<call, pc, raw, groupVars, order, current_path, old_line,
                 lines, oi, extVars>>

\* any other prefix: no branch of the if/elif chain is taken
SumOther ==
  /\ SumBody
  /\ ~IsContext(SumLine)
  /\ Prefix(SumLine) # "-"
  /\ Prefix(SumLine) # "+"
  /\ si' = si + 1
  /\ UNCHANGED <<call, pc, raw, groupVars, summaries, order, current_path,
                 old_line, new_line, results, lines, oi, extVars>>

\* the scan is over: start building the summary
SumScanEnd ==
  /\ pc = "summarize_scan"
  /\ si > Len(raw)
  /\ pc' = "summarize_build"
  /\ UNCHANGED <<call, raw, groupVars, sumVars, extVars>>

\* the loop without its  if not entries: continue
HasNoEntriesNever(es) == FALSE

\* if not entries: continue
HasNoEntries(es) == es = <<>>

\* one iteration of  for path in order  up to the call of group_entries
SumBuildPath ==
  /\ pc = "summarize_build"
  /\ oi <= Len(order)
  /\ entries' = summaries[order[oi]]
  /\ IF HasNoEntries(summaries[order[oi]])
       THEN /\ oi' = oi + 1
            /\ UNCHANGED <<pc, lines>>
       ELSE /\ lines' = Append(lines, TitleLine(order[oi]))
            /\ pc' = "group_entries"
            /\ UNCHANGED oi
  /\ UNCHANGED <<call, raw, groups, current, gi, summaries, order, current_path,
                 old_line, new_line, results, si, extVars>>

\* for grp in group_entries(entries): the group's line and its contents
SumEmitGroups ==
  /\ pc = "summarize_emit"
  /\ lines' = lines \o RenderGroups(groups)
  /\ oi' = oi + 1
  /\ pc' = "summarize_build"
  /\ UNCHANGED <<call, raw, groupVars, summaries, order, current_path,
                 old_line, new_line, results, si, extVars>>

\* return results, "\n".join(lines)
SumReturn ==
  /\ pc = "summarize_build"
  /\ oi > Len(order)
  /\ pc' = "extract_code_snippet"
  /\ UNCHANGED <<call, raw, groupVars, sumVars, extVars>>

\* ----------------------------------------------------- extract_code_snippet
DefaultContextLines == 1

\* the line reference parses: the try blocks raise nothing
RefParses(ref) ==
  IF \E n \in 1..Len(ref) : ref[n] = "-"
    THEN IsInt(Split(ref, "-")[1]) /\ IsInt(Split(ref, "-")[2])
    ELSE IsInt(ref)

\* start_line of a reference that parses
RefStart(ref) ==
  IF \E n \in 1..Len(ref) : ref[n] = "-"
    THEN IntValue(Split(ref, "-")[1])
    ELSE IntValue(ref)

\* end_line of a reference that parses
RefEnd(ref) ==
  IF \E n \in 1..Len(ref) : ref[n] = "-"
    THEN IntValue(Split(ref, "-")[2])
    ELSE IntValue(ref)

\* the test with every section taken for the target
IsTargetAlways(path, target) == TRUE

\* in_target_file = (path == file_path)
IsTarget(path, target) == path = target

\* start_line - context_lines <= current_new_line <= end_line + context_lines
InWindow(n, lo, hi, ctx) == lo - ctx <= n /\ n <= hi + ctx

\* the marker put on every recorded line
MarkerWholeWindow(n, lo, hi) == ">"

\* ">" if start_line <= current_new_line <= end_line else " "
Marker(n, lo, hi) == IF lo <= n /\ n <= hi THEN ">" ELSE " "

\* line[1:] if len(line) > 1 else ""
SnippetContent(line) == IF Len(line) > 1 THEN Tail(line) ELSE <<>>

\* f"{marker} {current_new_line}: {content}"
SnippetText(marker, n, content) ==
  [marker |-> marker, number |-> n, content |-> content]

\* (current_new_line, text)
Collected(n, text) == [number |-> n, text |-> text]

\* "\n".join(line for _, line in collected_lines), or None
SnippetOf(coll) ==
  IF coll # <<>> THEN Some([n \in 1..Len(coll) |-> coll[n].text]) ELSE None

\* the arguments the function is applied to
Paths == {"foo.py", "bar.py"}

Digits(n) == <<DigitChar[n]>>

\* "<a>-<b>"
RangeRef(a, b) == Digits(a) \o <<"-">> \o Digits(b)

LineRefs ==
  {Digits(2), RangeRef(1, 2), RangeRef(3, 1), RangeRef(1, 2) \o <<"-">> \o Digits(3),
   <<>>, <<"a", "b", "c">>, <<"2", "-">>, <<"-", "2">>, <<"-">>, <<"1", "-", "a">>}

ContextChoices == {0, DefaultContextLines}

\* the line under the scan of extract_code_snippet
ExtLine == raw[xi]

Extracting == pc = "extract_scan" /\ xi <= Len(raw)

\* the lines that reach the prefix dispatch of extract_code_snippet
ExtBody ==
  /\ Extracting
  /\ ~IsDiffHeader(ExtLine)
  /\ in_target_file
  /\ ~IsHunkHeader(ExtLine)
  /\ ExtLine # <<>>

\* the call, the parse of the line reference, and the locals' initial values
ExtEnter ==
  /\ pc = "extract_code_snippet"
  /\ \E path \in Paths, ref \in LineRefs, ctx \in ContextChoices :
       /\ file_path' = path
       /\ line_ref' = ref
       /\ context_lines' = ctx
       /\ IF RefParses(ref)
            THEN /\ start_line' = RefStart(ref)
                 /\ end_line' = RefEnd(ref)
                 /\ pc' = "extract_scan"
                 /\ snippet' = snippet
            ELSE /\ snippet' = None
                 /\ pc' = "done"
                 /\ UNCHANGED <<start_line, end_line>>
  /\ in_target_file' = FALSE
  /\ current_new_line' = 0
  /\ collected_lines' = <<>>
  /\ xi' = 1
  /\ UNCHANGED <<call, raw, groupVars, sumVars>>

\* a file header: in_target_file = (path == file_path)
ExtDiffHeader ==
  /\ Extracting
  /\ IsDiffHeader(ExtLine)
  /\ in_target_file' = IsTarget(HeaderPath(ExtLine), file_path)
  /\ xi' = xi + 1
  /\ UNCHANGED <<call, pc, raw, groupVars, sumVars, file_path, line_ref,
                 context_lines, start_line, end_line, current_new_line,
                 collected_lines, snippet>>

\* if not in_target_file: continue
ExtNotTarget ==
  /\ Extracting
  /\ ~IsDiffHeader(ExtLine)
  /\ ~in_target_file
  /\ xi' = xi + 1
  /\ UNCHANGED <<call, pc, raw, groupVars, sumVars, file_path, line_ref,
                 context_lines, start_line, end_line, in_target_file,
                 current_new_line, collected_lines, snippet>>

\* a hunk header of the target: set the new-file counter
ExtHunkHeader ==
  /\ Extracting
  /\ ~IsDiffHeader(ExtLine)
  /\ in_target_file
  /\ IsHunkHeader(ExtLine)
  /\ current_new_line' = HunkNewStart(ExtLine)
  /\ xi' = xi + 1
  /\ UNCHANGED <<call, pc, raw, groupVars, sumVars, file_path, line_ref,
                 context_lines, start_line, end_line, in_target_file,
                 collected_lines, snippet>>

\* if not line: continue
ExtEmpty ==
  /\ Extracting
  /\ ~IsDiffHeader(ExtLine)
  /\ in_target_file
  /\ ~IsHunkHeader(ExtLine)
  /\ ExtLine = <<>>
  /\ xi' = xi + 1
  /\ UNCHANGED <<call, pc, raw, groupVars, sumVars, file_path, line_ref,
                 context_lines, start_line, end_line, in_target_file,
                 current_new_line, collected_lines, snippet>>

\* a removed line: skipped
ExtRemoved ==
  /\ ExtBody
  /\ Prefix(ExtLine) = "-"
  /\ xi' = xi + 1
  /\ UNCHANGED <<call, pc, raw, groupVars, sumVars, file_path, line_ref,
                 context_lines, start_line, end_line, in_target_file,
                 current_new_line, collected_lines, snippet>>

\* a context or added line: recorded when in the window, then counted
ExtRecord ==
  /\ ExtBody
  /\ Prefix(ExtLine) # "-"
  /\ Prefix(ExtLine) \in {" ", "+"}
  /\ IF current_new_line > 0
       THEN /\ collected_lines' =
                 IF InWindow(current_new_line, start_line, end_line, context_lines)
                   THEN Append(collected_lines,
                               Collected(current_new_line,
                                         SnippetText(Marker(current_new_line,
                                                            start_line, end_line),
                                                     current_new_line,
                                                     SnippetContent(ExtLine))))
                   ELSE collected_lines
            /\ current_new_line' = current_new_line + 1
       ELSE UNCHANGED <<collected_lines, current_new_line>>
  /\ xi' = xi + 1
  /\ UNCHANGED <<call, pc, raw, groupVars, sumVars, file_path, line_ref,
                 context_lines, start_line, end_line, in_target_file, snippet>>

\* any other prefix: no branch is taken
ExtOther ==
  /\ ExtBody
  /\ Prefix(ExtLine) # "-"
  /\ Prefix(ExtLine) \notin {" ", "+"}
  /\ xi' = xi + 1
  /\ UNCHANGED <<call, pc, raw, groupVars, sumVars, file_path, line_ref,
                 context_lines, start_line, end_line, in_target_file,
                 current_new_line, collected_lines, snippet>>

\* the joined recorded lines, or None
ExtReturn ==
  /\ pc = "extract_scan"
  /\ xi > Len(raw)
  /\ snippet' = SnippetOf(collected_lines)
  /\ pc' = "done"
  /\ UNCHANGED <<call, raw, groupVars, sumVars, file_path, line_ref,
                 context_lines, start_line, end_line, in_target_file,
                 current_new_line, collected_lines, xi>>

\* ---------------------------------------------------------------- inputs
RECURSIVE SeqsUpTo(_, _)
\* the sequences over S of length at most n
SeqsUpTo(S, n) ==
  IF n = 0 THEN {<<>>}
  ELSE LET shorter == SeqsUpTo(S, n - 1)
       IN shorter \cup {Append(q, x) : q \in shorter, x \in S}

HeaderLines == {HeaderLine("bar.py", "foo.py"), HeaderLine("bar.py", DevNull)}

HunkLines == {HunkLine(0, 1), HunkLine(1, 2)}

TextLines ==
  {<<"+", "a", " ">>, <<"-">>, <<" ", "c">>, <<"i", "x">>, NoNewlineMarker, <<>>}

DiffLines == HeaderLines \cup HunkLines \cup TextLines

\* the diff of the specification's worked example
ExampleDiff ==
  <<HeaderLine("foo.py", "foo.py"), HunkLine(1, 1),
    <<" ", "a">>, <<"-", "b">>, <<"+", "c">>, <<" ", "d">>>>

\* one file whose second hunk starts before its first
BackwardHunksDiff ==
  <<HeaderLine("bar.py", "foo.py"), HunkLine(1, 2), <<"+", "a", " ">>,
    HunkLine(0, 1), <<"+", "a", " ">>>>

\* one path in two sections, each with one added line
TwoSectionsDiff ==
  <<HeaderLine("bar.py", "foo.py"), HunkLine(0, 1), <<"+", "a", " ">>,
    HeaderLine("bar.py", "foo.py"), HunkLine(1, 2), <<"+", "a", " ">>>>

\* a deleted file: the new side is /dev/null and starts at line 0
DeletedFileDiff ==
  <<HeaderLine("bar.py", DevNull), HunkLine(1, 0),
    <<"-">>, <<" ", "c">>, <<"+", "a", " ">>>>

\* a file header followed by at most n lines of any kind
Headed(n) == {<<h>> \o body : h \in HeaderLines, body \in SeqsUpTo(DiffLines, n)}

\* the lines put before the first file header: a hunk header, an added and a
\* removed line
StrayLines == {HunkLine(1, 2), <<"+", "a", " ">>, <<"-">>}

\* the same with one stray line in front
Preceded(n) == {<<x>> \o d : x \in StrayLines, d \in Headed(n)}

\* two files: the first with an added line, the second with context only
TwoFilesDiff ==
  <<HeaderLine("bar.py", "foo.py"), HunkLine(1, 2), <<"+", "a", " ">>,
    HeaderLine("bar.py", DevNull), HunkLine(1, 1), <<" ", "c">>>>

Diffs ==
  {<<>>} \cup Headed(MaxBody) \cup Preceded(MaxBody - 1)
    \cup {ExampleDiff, BackwardHunksDiff, TwoSectionsDiff, DeletedFileDiff,
          TwoFilesDiff}

Contents == {<<"a">>, <<"b">>}

Entries ==
  {ChangeEntry("foo.py", n, t, c) :
     n \in 1..MaxLineNo, t \in {"add", "remove"}, c \in Contents}

\* ----------------------------------------------------------- specifications
GroupIdle ==
  /\ entries = <<>>
  /\ groups = <<>>
  /\ current = NoGroup
  /\ gi = 1

SumIdle ==
  /\ summaries = <<>>
  /\ order = <<>>
  /\ current_path = NoPath
  /\ old_line = 0
  /\ new_line = 0
  /\ results = <<>>
  /\ lines = <<>>
  /\ si = 1
  /\ oi = 1

ExtIdle ==
  /\ file_path = ""
  /\ line_ref = <<>>
  /\ context_lines = DefaultContextLines
  /\ start_line = 0
  /\ end_line = 0
  /\ in_target_file = FALSE
  /\ current_new_line = 0
  /\ collected_lines = <<>>
  /\ snippet = None
  /\ xi = 1

\* summarize_diff(raw), then extract_code_snippet(raw, ...), on a drawn diff
InitReview ==
  /\ call = "summarize_diff"
  /\ pc = "summarize_scan"
  /\ raw \in Diffs
  /\ GroupIdle
  /\ SumIdle
  /\ ExtIdle

\* group_entries(entries) on a drawn entry sequence
InitGroup ==
  /\ call = "group_entries"
  /\ pc = "group_entries"
  /\ raw = <<>>
  /\ entries \in SeqsUpTo(Entries, MaxEntries)
  /\ groups = <<>>
  /\ current = NoGroup
  /\ gi = 1
  /\ SumIdle
  /\ ExtIdle

Init == InitReview \/ InitGroup

GroupNext == GroupEnter \/ GroupExtend \/ GroupClose \/ GroupReturn

SumNext ==
  \/ SumDiffHeader \/ SumNoFile \/ SumHunkHeader \/ SumSkip \/ SumContext
  \/ SumRemove \/ SumAdd \/ SumOther \/ SumScanEnd \/ SumBuildPath
  \/ SumEmitGroups \/ SumReturn

ExtNext ==
  \/ ExtEnter \/ ExtDiffHeader \/ ExtNotTarget \/ ExtHunkHeader \/ ExtEmpty
  \/ ExtRemoved \/ ExtRecord \/ ExtOther \/ ExtReturn

Next == GroupNext \/ SumNext \/ ExtNext

Spec == Init /\ [][Next]_vars

\* ------------------------------------------------------------------ claims
RECURSIVE ConcatContents(_)
\* the content lists of the groups, concatenated in group order
ConcatContents(gs) ==
  IF gs = <<>> THEN <<>> ELSE Head(gs).content \o ConcatContents(Tail(gs))

\* the content values of an entry sequence, in order
ContentsOf(es) == [n \in 1..Len(es) |-> es[n].content]

\* group_entries has returned (to its caller, or to the harness)
GroupsReturned ==
  \/ call = "group_entries" /\ pc = "done"
  \/ pc = "summarize_emit"

\* C1: grouping is a lossless partition: the contents of the groups that
\* group_entries returns, concatenated in group order, are the contents of
\* the entries it was given, in their original order.
C1_LosslessPartition ==
  GroupsReturned => ConcatContents(groups) = ContentsOf(entries)

\* C1 witness: a call on three entries has returned two groups, one of them
\* a run of two entries
C1_Witness ==
  /\ GroupsReturned
  /\ Len(entries) = 3
  /\ Len(groups) = 2
  /\ \E n \in 1..Len(groups) : Len(groups[n].content) = 2

GroupShape(g) ==
  g.start_line <= g.end_line /\ g.end_line - g.start_line + 1 = Len(g.content)

\* C2: every closed group, and the open group at every step of the loop,
\* has start_line <= end_line and end_line - start_line + 1 = len(content).
C2_GroupShape ==
  /\ \A n \in 1..Len(groups) : GroupShape(groups[n])
  /\ pc = "group_loop" => GroupShape(current)

\* C2 witness: inside the loop, one group is closed and the open group has
\* been extended
C2_Witness ==
  /\ pc = "group_loop"
  /\ Len(groups) >= 1
  /\ Len(current.content) >= 2

\* summarize_diff has returned
Summarized ==
  call = "summarize_diff" /\ pc \in {"extract_code_snippet", "extract_scan", "done"}

\* extract_code_snippet has returned
Extracted == call = "summarize_diff" /\ pc = "done"

ExampleEntries ==
  <<ChangeEntry("foo.py", 2, "remove", <<"b">>),
    ChangeEntry("foo.py", 2, "add", <<"c">>)>>

ExampleSnippet ==
  Some(<<SnippetText(" ", 1, <<"a">>), SnippetText(">", 2, <<"c">>),
         SnippetText(" ", 3, <<"d">>)>>)

ExampleCall ==
  /\ Extracted
  /\ raw = ExampleDiff
  /\ file_path = "foo.py"
  /\ line_ref = <<"2">>
  /\ context_lines = 1

\* C3: on the worked example, summarize_diff returns exactly
\* [remove(foo.py, 2, b), add(foo.py, 2, c)], and extract_code_snippet for
\* foo.py, line 2, one line of context returns the lines 1, 2, 3 (a, c, d)
\* with only line 2 marked ">".
C3_WorkedExample ==
  /\ (Summarized /\ raw = ExampleDiff) => results = ExampleEntries
  /\ ExampleCall => snippet = ExampleSnippet

\* C3 witness: both functions have returned on the worked example
C3_Witness == ExampleCall /\ Len(results) = 2 /\ snippet.some

\* C4: a reversed range (start > end) yields the absent value, whatever the
\* diff, the path and the context.
C4_ReversedRangeAbsent ==
  (Extracted /\ RefParses(line_ref) /\ start_line > end_line) => snippet = None

\* C5: the lines of a returned snippet are in ascending line-number order.
C5_SnippetAscending ==
  (Extracted /\ snippet.some) =>
    \A a, b \in 1..Len(snippet.text) :
      a < b => snippet.text[a].number <= snippet.text[b].number

\* a single integer, or exactly two integers joined by one "-"
IsIntOrIntPair(ref) ==
  \/ IsInt(ref)
  \/ \E n \in 1..Len(ref) :
       /\ ref[n] = "-"
       /\ IsInt(SubSeq(ref, 1, n - 1))
       /\ IsInt(SubSeq(ref, n + 1, Len(ref)))

\* C6: a line reference that is neither a single integer nor exactly two
\* integers joined by one "-" yields the absent value.
C6_MalformedRefAbsent ==
  (Extracted /\ ~IsIntOrIntPair(line_ref)) => snippet = None

\* the rule of the specification: the new path, or the old path when the new
\* path is /dev/null
ResolvedPath(header) == IF header[4] = "/dev/null" THEN header[2] ELSE header[4]

\* the indices of the file headers before line k of the diff
HeadersBefore(k) == {m \in 1..(k - 1) : m <= Len(raw) /\ IsDiffHeader(raw[m])}

\* the header of the section line k lies in
SectionHeader(k) ==
  raw[CHOOSE m \in HeadersBefore(k) : \A q \in HeadersBefore(k) : q <= m]

\* the resolved path of the section line k lies in; NoPath before any section
SectionPath(k) ==
  IF HeadersBefore(k) = {} THEN NoPath ELSE ResolvedPath(SectionHeader(k))

\* no file header of the diff resolves to the path
NoSectionOf(path) ==
  \A m \in 1..Len(raw) : IsDiffHeader(raw[m]) => ResolvedPath(raw[m]) # path

\* C7: extract_code_snippet records a line only while it scans a section
\* whose resolved header path equals the requested path, and a requested
\* path that no file header resolves to yields the absent value.
C7_OnlyTargetSection ==
  /\ [][collected_lines' # collected_lines => SectionPath(xi) = file_path]_vars
  /\ []((Extracted /\ NoSectionOf(file_path)) => snippet = None)

\* C7 witness: a snippet was returned from a diff in which another file's
\* section holds a hunk header and a context or added line
C7_Witness ==
  /\ Extracted
  /\ snippet.some
  /\ \E k \in 1..(Len(raw) - 2) :
       /\ IsDiffHeader(raw[k])
       /\ ResolvedPath(raw[k]) # file_path
       /\ IsHunkHeader(raw[k + 1])
       /\ Len(raw[k + 2]) \in 1..3
       /\ raw[k + 2][1] \in {" ", "+"}

\* a non-empty line that is no file header, no hunk header, not the
\* no-newline marker, and starts with none of " ", "-", "+"
OtherPrefixLine(line) ==
  /\ line # <<>>
  /\ ~IsDiffHeader(line)
  /\ ~IsHunkHeader(line)
  /\ line # NoNewlineMarker
  /\ line[1] \notin {" ", "-", "+"}

\* summarize_diff steps over such a line inside a file section
OtherLineScanned ==
  /\ pc = "summarize_scan"
  /\ si <= Len(raw)
  /\ si' = si + 1
  /\ SectionPath(si) # NoPath
  /\ OtherPrefixLine(raw[si])

\* C8 as stated: such a line is handled like a context line, it advances
\* each counter that is nonzero.
C8_OtherPrefixIsContext ==
  [][OtherLineScanned =>
       /\ old_line' = (IF old_line > 0 THEN old_line + 1 ELSE old_line)
       /\ new_line' = (IF new_line > 0 THEN new_line + 1 ELSE new_line)
       /\ results' = results]_vars

\* C8 amended: such a line produces no entry and leaves both counters as
\* they are, so later entries of the hunk are not shifted.
C8_OtherPrefixIgnored ==
  [][OtherLineScanned => UNCHANGED <<old_line, new_line, results, summaries>>]_vars

\* C8 witness: inside a hunk with running counters, a line of unknown prefix
\* was scanned and the added line after it got its entry
C8_Witness ==
  /\ pc = "summarize_scan"
  /\ si > 2
  /\ si - 1 <= Len(raw)
  /\ SectionPath(si - 2) # NoPath
  /\ OtherPrefixLine(raw[si - 2])
  /\ Len(raw[si - 1]) \in 1..3
  /\ raw[si - 1][1] = "+"
  /\ results # <<>>
  /\ results[Len(results)].line = new_line - 1

\* the paths of the summary's header lines, in order
TitlePaths ==
  LET IsTitle(l) == l.kind = "title"
      titles == SelectSeq(lines, IsTitle)
  IN [n \in 1..Len(titles) |-> titles[n].text[2]]

RECURSIVE FirstSeen(_, _)
\* the resolved paths of the file headers of a diff, each once, in the order
\* of their first header
FirstSeen(diff, seen) ==
  IF diff = <<>> THEN <<>>
  ELSE IF IsDiffHeader(Head(diff)) /\ ResolvedPath(Head(diff)) \notin seen
    THEN <<ResolvedPath(Head(diff))>>
           \o FirstSeen(Tail(diff), seen \cup {ResolvedPath(Head(diff))})
    ELSE FirstSeen(Tail(diff), seen)

\* the path has at least one entry
HasEntry(path) == \E n \in 1..Len(results) : results[n].path = path

C10_DeletionPath ==
  /\ [][results' # results =>
          results'[Len(results')].path = SectionPath(si)]_vars
  /\ [][(pc = "extract_scan" /\ xi <= Len(raw) /\ xi' = xi + 1
           /\ IsDiffHeader(raw[xi])) =>
          in_target_file' = (ResolvedPath(raw[xi]) = file_path)]_vars

\* C10 witness: a deletion section produced an entry under the old path, and
\* the snippet requested under that path was found
C10_Witness ==
  /\ Extracted
  /\ file_path = "bar.py"
  /\ snippet.some
  /\ \A m \in 1..Len(raw) : IsDiffHeader(raw[m]) => raw[m][4] = DevNull
  /\ \E n \in 1..Len(results) : results[n].path = "bar.py"

\* the hunk headers between the header of the section of line k and line k
HunksBefore(k) ==
  {m \in 1..(k - 1) :
     /\ m <= Len(raw)
     /\ IsHunkHeader(raw[m])
     /\ \E h \in HeadersBefore(k) : h < m}

\* line k lies before the first file header, or between a file header and
\* the first hunk header that follows it
BeforeFirstHunk(k) ==
  \A m \in HunksBefore(k) : \E h \in HeadersBefore(k) : m < h

\* a line that starts with "+" or "-"
ChangeLine(line) == line # <<>> /\ line[1] \in {"+", "-"}

\* summarize_diff steps over a "+" or "-" line that no hunk header precedes
\* in its section
StrayChangeScanned ==
  /\ pc = "summarize_scan"
  /\ si <= Len(raw)
  /\ si' = si + 1
  /\ ChangeLine(raw[si])
  /\ BeforeFirstHunk(si)

\* C11: a "+" or "-" line before the first hunk header of its section, or
\* before the first file header, emits no entry and leaves both counters
\* at 0, also after a section that left them positive; every entry has
\* line >= 1.
C11_NoEntryBeforeHunk ==
  /\ [][StrayChangeScanned =>
          /\ results' = results
          /\ summaries' = summaries
          /\ old_line = 0 /\ new_line = 0
          /\ old_line' = 0 /\ new_line' = 0]_vars
  /\ [](\A n \in 1..Len(results) : results[n].line >= 1)

\* C11 witness: a "+" or "-" line was scanned in a section without a hunk
\* header, after an earlier section whose hunk header had set a counter
C11_Witness ==
  /\ pc = "summarize_scan"
  /\ si > 1
  /\ si - 1 <= Len(raw)
  /\ ChangeLine(raw[si - 1])
  /\ BeforeFirstHunk(si - 1)
  /\ \E m \in 1..(si - 2) :
       /\ IsHunkHeader(raw[m])
       /\ \E h \in HeadersBefore(si - 1) : h < m
       /\ \E h \in HeadersBefore(si - 1) : m < h
  /\ old_line = 0
  /\ new_line = 0

\* the hunk headers of the section of line k that precede line k
SectionHunks(k) ==
  {m \in 1..(k - 1) :
     /\ m <= Len(raw)
     /\ IsHunkHeader(raw[m])
     /\ HeadersBefore(k) # {}
     /\ \A h \in HeadersBefore(k) : h < m}

\* the hunk header in force at line k
HunkInForce(k) ==
  raw[CHOOSE m \in SectionHunks(k) : \A q \in SectionHunks(k) : q <= m]

\* line k of the diff yields an entry: a "+" line under a hunk header whose
\* new start is not 0, or a "-" line under one whose old start is not 0
Emits(k) ==
  /\ k \in 1..Len(raw)
  /\ ChangeLine(raw[k])
  /\ SectionHunks(k) # {}
  /\ \/ raw[k][1] = "+" /\ HunkInForce(k)[4] # "0"
     \/ raw[k][1] = "-" /\ HunkInForce(k)[2] # "0"

\* the lines of the diff that yield the entries of a path
EmittingLines(path) == {k \in 1..Len(raw) : Emits(k) /\ SectionPath(k) = path}

\* the line of the diff that yields the n-th entry of a path
LineOfEntry(path, n) ==
  CHOOSE k \in EmittingLines(path) :
    Cardinality({j \in EmittingLines(path) : j <= k}) = n

\* the file header of the section the n-th entry of a path comes from
SectionOfEntry(path, n) ==
  CHOOSE h \in HeadersBefore(LineOfEntry(path, n)) :
    \A q \in HeadersBefore(LineOfEntry(path, n)) : q <= h

\* the number of entries in the first j groups
EntriesIn(j) == Len(ConcatContents(SubSeq(groups, 1, j)))

\* the group that holds the n-th entry
GroupOf(n) ==
  CHOOSE j \in 1..Len(groups) : EntriesIn(j - 1) < n /\ n <= EntriesIn(j)

\* the rule of the specification: same change_type, and the next line
Mergeable(a, b) == b.change_type = a.change_type /\ b.line = a.line + 1

\* the groups are the maximal runs of the entry list under the rule
MaximalRuns ==
  /\ EntriesIn(Len(groups)) = Len(entries)
  /\ \A j \in 1..Len(groups) : groups[j].content # <<>>
  /\ \A n \in 1..(Len(entries) - 1) :
       (GroupOf(n) = GroupOf(n + 1)) <=> Mergeable(entries[n], entries[n + 1])
  /\ \A j \in 1..(Len(groups) - 1) :
       ~(/\ groups[j + 1].change_type = groups[j].change_type
         /\ groups[j + 1].start_line = groups[j].end_line + 1)

\* two neighbours of the entry list of the path under rendering share a group
\* and come from two sections
SpansSections(n) ==
  /\ GroupOf(n) = GroupOf(n + 1)
  /\ SectionOfEntry(order[oi], n) # SectionOfEntry(order[oi], n + 1)

\* C12 as stated: the groups of the summary are maximal runs under the rule,
\* and no group holds entries of two sections of the same path.
C12_MaximalRunsPerSection ==
  pc = "summarize_emit" =>
    /\ MaximalRuns
    /\ \A n \in 1..(Len(entries) - 1) : ~SpansSections(n)

\* C12 amended: the groups are the maximal runs of the entry list
\* accumulated for one path over all its sections; neighbours are in one
\* group exactly when they have the same change_type and consecutive lines,
\* and adjacent groups are never mergeable.
C12_MaximalRunsPerPath == GroupsReturned => MaximalRuns

\* C12 witness: the entries of a path, one from each of two sections, were
\* returned as one group
C12_Witness ==
  /\ pc = "summarize_emit"
  /\ Cardinality(EmittingLines(order[oi])) = Len(entries)
  /\ \E n \in 1..(Len(entries) - 1) : SpansSections(n)

\* the index in results of the entry that line k of the diff yields
EntryIndex(k) == Cardinality({j \in 1..k : Emits(j)})

\* summarize_diff emitted the add entry (path, n) for line k of the diff
ParserEmitted(k, path, n) ==
  /\ Emits(k)
  /\ EntryIndex(k) <= Len(results)
  /\ results[EntryIndex(k)].path = path
  /\ results[EntryIndex(k)].line = n
  /\ results[EntryIndex(k)].change_type = "add"

\* extract_code_snippet, called for one line number and no context, steps
\* over a "+" line of a section of the requested path
AddLineExtracted ==
  /\ pc = "extract_scan"
  /\ xi <= Len(raw)
  /\ xi' = xi + 1
  /\ raw[xi] # <<>>
  /\ raw[xi][1] = "+"
  /\ SectionPath(xi) = file_path
  /\ context_lines = 0
  /\ start_line = end_line

\* C13: the two scanners agree on new-file numbering: for a "+" line of a
\* section of path P, extract_code_snippet(raw, P, n, context_lines=0)
\* records the line exactly when summarize_diff emitted the add entry (P, n)
\* for it.
C13_ScannersAgree ==
  [][AddLineExtracted =>
       ((collected_lines' # collected_lines)
          <=> ParserEmitted(xi, file_path, start_line))]_vars

====
